---- MODULE Spec2Model ----
(***************************************************************************)
(* Credential store of CloudLog Analyst (contexts/SecretsContext.tsx):    *)
(* the SecretsProvider component, its environment scan loadFromEnv, the   *)
(* mount effect, setSecrets, clearSecrets and the derived hasSecrets.     *)
(*                                                                         *)
(* A JavaScript value of type string | undefined | null is a sequence of  *)
(* length at most one: << >> is undefined/null and <<s>> is the string s. *)
(* An object used as a dictionary (process.env, import.meta.env,          *)
(* window._env_, sessionStorage) is a function whose DOMAIN is the set of *)
(* keys it holds.  A missing object (window._env_ undefined) reads like   *)
(* an object without keys and is represented by one.                      *)
(***************************************************************************)
EXTENDS Integers, Sequences, FiniteSets, TLC

VARIABLES
  processEnv,      \* process.env
  importMetaEnv,   \* import.meta.env
  windowEnv,       \* window._env_
  sessionStorage,  \* window.sessionStorage
  projectId,       \* useState('')      SecretsContext.tsx:7
  accessToken,     \* useState('')      SecretsContext.tsx:8
  isEnvManaged,    \* useState(false)   SecretsContext.tsx:9
  hasSecrets,      \* the hasSecrets field of the rendered context value
  mounted,         \* the mount effect has run
  op,              \* the operation that ran last
  ret,             \* what the last call of loadFromEnv returned
  foundPid,        \* local foundPid of the last call of loadFromEnv
  foundToken,      \* local foundToken of the last call of loadFromEnv
  args,            \* the arguments of the last call of setSecrets
  storageRead,     \* the mount effect read sessionStorage
  overwrote,       \* the mount effect replaced what sessionStorage held
  prevOp,          \* the operation that ran before the last one
  svcCall,         \* the function of services/geminiService.ts that is called
  svcInput,        \* what the network answers to that call
  svcResult,       \* how the call settled: what it returned or threw
  logs,            \* useState<LogEntry[]>([])                  App.tsx:13
  report,          \* useState<AnalysisSummary | null>(null)    App.tsx:14
  reportOf,        \* the logs handed to the call whose answer report holds
  isProcessing,    \* useState(false)                           App.tsx:15
  currentPage,     \* useState('upload')                        App.tsx:16
  uploader,        \* the state of LogUploader while it is mounted
  costDashboard,   \* the state of CostDashboard while it is mounted
  tasks            \* the async handlers waiting for a request, oldest first

vars == <<processEnv, importMetaEnv, windowEnv, sessionStorage, projectId,
          accessToken, isEnvManaged, hasSecrets, mounted, op, ret, foundPid,
          foundToken, args, storageRead, overwrote, prevOp,
          svcCall, svcInput, svcResult,
          logs, report, reportOf, isProcessing, currentPage, uploader,
          costDashboard, tasks>>

envVars == <<processEnv, importMetaEnv, windowEnv>>

svcVars == <<svcCall, svcInput, svcResult>>

appVars == <<logs, report, reportOf, isProcessing, currentPage>>

uiVars == <<appVars, uploader, costDashboard, tasks>>

-----------------------------------------------------------------------------
(* Bounds and input sets *)

\* the number of environment entries (source, key) that are set
MaxEnvVars == 2

\* the longest list of entries the logging API answers with
MaxEntries == 2

\* the number of requests that wait for their answer at one time
MaxInFlight == 2

\* what the user types into the credential form
ManualPids == {"m", "p"}
ManualTokens == {"n"}

\* what an earlier page load of the tab can have left in sessionStorage
StoredPids == {"s"}
StoredTokens == {"t"}

-----------------------------------------------------------------------------
(* Names *)

pidKeys == <<"GCP_PROJECT_ID", "VITE_GCP_PROJECT_ID", "REACT_APP_GCP_PROJECT_ID">>
tokenKeys == <<"GCP_ACCESS_TOKEN", "VITE_GCP_ACCESS_TOKEN", "REACT_APP_GCP_ACCESS_TOKEN">>

Range(s) == {s[i] : i \in 1..Len(s)}
EnvKeys == Range(pidKeys) \cup Range(tokenKeys)

K_PID == "gcp_project_id"
K_TOKEN == "gcp_access_token"

Sources == {"process", "meta", "window"}
Slots == Sources \X EnvKeys

-----------------------------------------------------------------------------
(* JavaScript values *)

Undefined == << >>
Str(s) == <<s>>

\* the truthiness test of if (v) and !!v on a string | undefined | null
Truthy(v) == v # Undefined /\ v[1] # ""

\* obj[key] and sessionStorage.getItem(key)
Get(obj, key) == IF key \in DOMAIN obj THEN Str(obj[key]) ELSE Undefined

\* sessionStorage.setItem(key, val)
setItem(store, key, val) ==
  [k \in DOMAIN store \cup {key} |-> IF k = key THEN val ELSE store[k]]

\* sessionStorage.removeItem(key)
removeItem(store, key) == [k \in DOMAIN store \ {key} |-> store[k]]

-----------------------------------------------------------------------------
(* The environment scan: loadFromEnv *)

\* getEnvValue with its third source consulted before the first two
getEnvValue_globalFirst(key) ==
  IF Truthy(Get(windowEnv, key)) THEN Get(windowEnv, key)
  ELSE IF Truthy(Get(processEnv, key)) THEN Get(processEnv, key)
  ELSE IF Truthy(Get(importMetaEnv, key)) THEN Get(importMetaEnv, key)
  ELSE Undefined

\* getEnvValue: process.env, then import.meta.env, then window._env_, each
\* asked for the one key; a source whose value is falsy is passed over
getEnvValue(key) ==
  IF Truthy(Get(processEnv, key)) THEN Get(processEnv, key)
  ELSE IF Truthy(Get(importMetaEnv, key)) THEN Get(importMetaEnv, key)
  ELSE IF Truthy(Get(windowEnv, key)) THEN Get(windowEnv, key)
  ELSE Undefined

RECURSIVE ScanFrom(_, _)
\* for (const key of keys) { const val = getEnvValue(key); if (val) { found = val; break; } }
ScanFrom(keys, i) ==
  IF i > Len(keys) THEN Undefined
  ELSE IF Truthy(getEnvValue(keys[i])) THEN getEnvValue(keys[i])
  ELSE ScanFrom(keys, i + 1)

RECURSIVE ScanLast(_, _)
\* the last key with a hit, which a loop without break leaves in the local
ScanLast(keys, i) ==
  IF i < 1 THEN Undefined
  ELSE IF Truthy(getEnvValue(keys[i])) THEN getEnvValue(keys[i])
  ELSE ScanLast(keys, i - 1)

\* the scan loop without its break
Scan_noBreak(keys) == ScanLast(keys, Len(keys))

\* one scan loop of loadFromEnv, over pidKeys or over tokenKeys
Scan(keys) == ScanFrom(keys, 1)

\* loadFromEnv that sets the fields and forgets to persist them
loadFromEnv_noPersist ==
  LET fp == Scan(pidKeys)
      ft == Scan(tokenKeys)
  IN  IF Truthy(fp) /\ Truthy(ft)
      THEN [ret |-> TRUE, foundPid |-> fp, foundToken |-> ft,
            projectId |-> fp[1], accessToken |-> ft[1],
            sessionStorage |-> sessionStorage, isEnvManaged |-> TRUE]
      ELSE [ret |-> FALSE, foundPid |-> fp, foundToken |-> ft,
            projectId |-> projectId, accessToken |-> accessToken,
            sessionStorage |-> sessionStorage, isEnvManaged |-> isEnvManaged]

\* loadFromEnv that takes a pair only from one naming convention
loadFromEnv_sameConvention ==
  LET ok(i) == Truthy(getEnvValue(pidKeys[i])) /\ Truthy(getEnvValue(tokenKeys[i]))
      hits == {i \in 1..Len(pidKeys) : ok(i)}
      first == CHOOSE i \in hits : \A j \in hits : i <= j
  IN  IF hits # {}
      THEN [ret |-> TRUE, foundPid |-> getEnvValue(pidKeys[first]),
            foundToken |-> getEnvValue(tokenKeys[first]),
            projectId |-> getEnvValue(pidKeys[first])[1],
            accessToken |-> getEnvValue(tokenKeys[first])[1],
            sessionStorage |->
              setItem(setItem(sessionStorage, K_PID, getEnvValue(pidKeys[first])[1]),
                      K_TOKEN, getEnvValue(tokenKeys[first])[1]),
            isEnvManaged |-> TRUE]
      ELSE [ret |-> FALSE, foundPid |-> Scan(pidKeys), foundToken |-> Scan(tokenKeys),
            projectId |-> projectId, accessToken |-> accessToken,
            sessionStorage |-> sessionStorage, isEnvManaged |-> isEnvManaged]

\* loadFromEnv that takes a lone project id as success
loadFromEnv_pidOnly ==
  LET fp == Scan(pidKeys)
      ft == Scan(tokenKeys)
  IN  IF Truthy(fp)
      THEN [ret |-> TRUE, foundPid |-> fp, foundToken |-> ft,
            projectId |-> fp[1],
            accessToken |-> IF Truthy(ft) THEN ft[1] ELSE "",
            sessionStorage |->
              setItem(setItem(sessionStorage, K_PID, fp[1]), K_TOKEN,
                      IF Truthy(ft) THEN ft[1] ELSE ""),
            isEnvManaged |-> TRUE]
      ELSE [ret |-> FALSE, foundPid |-> fp, foundToken |-> ft,
            projectId |-> projectId, accessToken |-> accessToken,
            sessionStorage |-> sessionStorage, isEnvManaged |-> isEnvManaged]

\* loadFromEnv that reports failure once the credential is environment-managed
loadFromEnv_onceOnly ==
  LET fp == Scan(pidKeys)
      ft == Scan(tokenKeys)
  IN  IF Truthy(fp) /\ Truthy(ft) /\ ~isEnvManaged
      THEN [ret |-> TRUE, foundPid |-> fp, foundToken |-> ft,
            projectId |-> fp[1], accessToken |-> ft[1],
            sessionStorage |->
              setItem(setItem(sessionStorage, K_PID, fp[1]), K_TOKEN, ft[1]),
            isEnvManaged |-> TRUE]
      ELSE [ret |-> FALSE, foundPid |-> fp, foundToken |-> ft,
            projectId |-> projectId, accessToken |-> accessToken,
            sessionStorage |-> sessionStorage, isEnvManaged |-> isEnvManaged]

\* loadFromEnv: what it returns, its two locals and the fields after it
loadFromEnv ==
  LET fp == Scan(pidKeys)
      ft == Scan(tokenKeys)
  IN  IF Truthy(fp) /\ Truthy(ft)
      THEN [ret |-> TRUE, foundPid |-> fp, foundToken |-> ft,
            projectId |-> fp[1], accessToken |-> ft[1],
            sessionStorage |->
              setItem(setItem(sessionStorage, K_PID, fp[1]), K_TOKEN, ft[1]),
            isEnvManaged |-> TRUE]
      ELSE [ret |-> FALSE, foundPid |-> fp, foundToken |-> ft,
            projectId |-> projectId, accessToken |-> accessToken,
            sessionStorage |-> sessionStorage, isEnvManaged |-> isEnvManaged]

-----------------------------------------------------------------------------
(* The other operations of the provider *)

\* hasSecrets computed from the project id alone
HasSecrets_pidOnly(pid, token) == Truthy(Str(pid))

\* hasSecrets: !!projectId && !!accessToken, computed at every render
HasSecrets(pid, token) == Truthy(Str(pid)) /\ Truthy(Str(token))

\* setSecrets that leaves the environment-managed flag as it is
setSecrets_keepFlag(pid, token) ==
  [projectId |-> pid, accessToken |-> token,
   sessionStorage |-> setItem(setItem(sessionStorage, K_PID, pid), K_TOKEN, token),
   isEnvManaged |-> isEnvManaged]

\* setSecrets that writes nothing to sessionStorage
setSecrets_noPersist(pid, token) ==
  [projectId |-> pid, accessToken |-> token,
   sessionStorage |-> sessionStorage,
   isEnvManaged |-> FALSE]

\* setSecrets(pid, token): the fields after it
setSecrets(pid, token) ==
  [projectId |-> pid, accessToken |-> token,
   sessionStorage |-> setItem(setItem(sessionStorage, K_PID, pid), K_TOKEN, token),
   isEnvManaged |-> FALSE]

\* clearSecrets that forgets the stored token
clearSecrets_keepToken ==
  [projectId |-> "", accessToken |-> "", isEnvManaged |-> FALSE,
   sessionStorage |-> removeItem(sessionStorage, K_PID)]

\* clearSecrets that leaves the flag of the environment alone
clearSecrets_keepFlag ==
  [projectId |-> "", accessToken |-> "", isEnvManaged |-> isEnvManaged,
   sessionStorage |-> removeItem(removeItem(sessionStorage, K_PID), K_TOKEN)]

\* clearSecrets(): the fields after it
clearSecrets ==
  [projectId |-> "", accessToken |-> "", isEnvManaged |-> FALSE,
   sessionStorage |-> removeItem(removeItem(sessionStorage, K_PID), K_TOKEN)]

\* the mount effect restoring the stored values only as a complete pair
initialize_pairOnly ==
  LET r == loadFromEnv
      storedProject == Get(sessionStorage, K_PID)
      storedToken == Get(sessionStorage, K_TOKEN)
      both == Truthy(storedProject) /\ Truthy(storedToken)
  IN  IF r.ret
      THEN r @@ [storageRead |-> FALSE]
      ELSE [r EXCEPT !.projectId = IF both THEN storedProject[1] ELSE projectId,
                     !.accessToken = IF both THEN storedToken[1] ELSE accessToken]
           @@ [storageRead |-> TRUE]

\* the mount effect preferring what sessionStorage holds to the environment
initialize_storageFirst ==
  LET r == loadFromEnv
      storedProject == Get(sessionStorage, K_PID)
      storedToken == Get(sessionStorage, K_TOKEN)
  IN  IF Truthy(storedProject) /\ Truthy(storedToken)
      THEN [r EXCEPT !.projectId = storedProject[1],
                     !.accessToken = storedToken[1],
                     !.sessionStorage = sessionStorage,
                     !.isEnvManaged = FALSE]
           @@ [storageRead |-> TRUE]
      ELSE IF r.ret THEN r @@ [storageRead |-> FALSE]
      ELSE [r EXCEPT !.projectId =
                       IF Truthy(storedProject) THEN storedProject[1] ELSE projectId,
                     !.accessToken =
                       IF Truthy(storedToken) THEN storedToken[1] ELSE accessToken]
           @@ [storageRead |-> TRUE]

\* the mount effect: loadFromEnv, and only if it fails the two stored values,
\* each on its own
initialize ==
  LET r == loadFromEnv
      storedProject == Get(sessionStorage, K_PID)
      storedToken == Get(sessionStorage, K_TOKEN)
  IN  IF r.ret
      THEN r @@ [storageRead |-> FALSE]
      ELSE [r EXCEPT !.projectId =
                       IF Truthy(storedProject) THEN storedProject[1] ELSE projectId,
                     !.accessToken =
                       IF Truthy(storedToken) THEN storedToken[1] ELSE accessToken]
           @@ [storageRead |-> TRUE]

-----------------------------------------------------------------------------
(* Initial states *)

RECURSIVE SlotSetsUpTo(_)
\* the sets of at most n environment entries
SlotSetsUpTo(n) ==
  IF n = 0 THEN {{}}
  ELSE LET P == SlotSetsUpTo(n - 1)
       IN  P \cup {T \cup {s} : T \in P, s \in Slots}

\* the value an environment entry holds when it is set to something: one of
\* its own, so that the value found tells the entry it was read from
OwnValue ==
  [process |->
     [GCP_PROJECT_ID |-> "env:GCP_PROJECT_ID",
      VITE_GCP_PROJECT_ID |-> "env:VITE_GCP_PROJECT_ID",
      REACT_APP_GCP_PROJECT_ID |-> "env:REACT_APP_GCP_PROJECT_ID",
      GCP_ACCESS_TOKEN |-> "env:GCP_ACCESS_TOKEN",
      VITE_GCP_ACCESS_TOKEN |-> "env:VITE_GCP_ACCESS_TOKEN",
      REACT_APP_GCP_ACCESS_TOKEN |-> "env:REACT_APP_GCP_ACCESS_TOKEN"],
   meta |->
     [GCP_PROJECT_ID |-> "meta:GCP_PROJECT_ID",
      VITE_GCP_PROJECT_ID |-> "meta:VITE_GCP_PROJECT_ID",
      REACT_APP_GCP_PROJECT_ID |-> "meta:REACT_APP_GCP_PROJECT_ID",
      GCP_ACCESS_TOKEN |-> "meta:GCP_ACCESS_TOKEN",
      VITE_GCP_ACCESS_TOKEN |-> "meta:VITE_GCP_ACCESS_TOKEN",
      REACT_APP_GCP_ACCESS_TOKEN |-> "meta:REACT_APP_GCP_ACCESS_TOKEN"],
   window |->
     [GCP_PROJECT_ID |-> "win:GCP_PROJECT_ID",
      VITE_GCP_PROJECT_ID |-> "win:VITE_GCP_PROJECT_ID",
      REACT_APP_GCP_PROJECT_ID |-> "win:REACT_APP_GCP_PROJECT_ID",
      GCP_ACCESS_TOKEN |-> "win:GCP_ACCESS_TOKEN",
      VITE_GCP_ACCESS_TOKEN |-> "win:VITE_GCP_ACCESS_TOKEN",
      REACT_APP_GCP_ACCESS_TOKEN |-> "win:REACT_APP_GCP_ACCESS_TOKEN"]]

\* the dictionary of one source: the entries in S are set, those in E to the
\* empty string
SourceEnv(src, S, E) ==
  [k \in {key \in EnvKeys : <<src, key>> \in S} |->
     IF <<src, k>> \in E THEN "" ELSE OwnValue[src][k]]

\* sessionStorage as an earlier page load of the tab can have left it: each of
\* the two keys on its own is there or not
InitialStores ==
  {[k \in D |-> IF k = K_PID THEN p ELSE t] :
     D \in SUBSET {K_PID, K_TOKEN}, p \in StoredPids, t \in StoredTokens}

-----------------------------------------------------------------------------
(* The components that consume the credentials *)

\* LogUploader as useState constructs it
UploaderInit ==
  [mode |-> "paste", text |-> "", isGenerating |-> FALSE,
   isFetchingGCP |-> FALSE, gcpError |-> Undefined]

\* CostDashboard as useState constructs it; dataScale is the scale that the
\* request answered by data was made with
CostInit ==
  [data |-> Undefined, dataScale |-> Undefined, loading |-> FALSE,
   scale |-> "hobby"]

\* an async handler that waits: which handler, the await it stands at, what it
\* holds in its locals, and whether the component whose state it sets is
\* still the mounted one
Task(kind, phase, arg, live) ==
  [kind |-> kind, phase |-> phase, arg |-> arg, live |-> live]

\* loadData of CostDashboard at its await, with the arguments of its call
CostTask(pid, scale) ==
  Task("cost", "generateCostReport", <<IF pid = "" THEN "demo-project" ELSE pid, scale>>, TRUE)

\* App renders LogUploader on the upload page and CostDashboard on the costs
\* page when there are secrets
UploaderMounted(page) == page = "upload"
CostMounted(page, has) == page = "costs" /\ has

\* the render after a handler has set page, credentials and component state:
\* a component that is no longer rendered loses its state, the handlers it
\* left behind set nothing any more, and the effect of CostDashboard runs on
\* mount and when projectId or scale differ from the last render
Reconcile(page, has, pid, u, c, t) ==
  LET wasCost == CostMounted(currentPage, hasSecrets)
      nowCost == CostMounted(page, has)
      nowUp == UploaderMounted(page)
      kept == [i \in 1..Len(t) |->
                 IF t[i].kind \in {"fetch", "demo"} /\ ~nowUp
                   THEN [t[i] EXCEPT !.live = FALSE]
                 ELSE IF t[i].kind = "cost" /\ ~nowCost
                   THEN [t[i] EXCEPT !.live = FALSE]
                 ELSE t[i]]
      effect == nowCost /\ (~wasCost \/ pid # projectId \/ c.scale # costDashboard.scale)
      c2 == IF ~nowCost THEN CostInit
            ELSE IF ~wasCost THEN [CostInit EXCEPT !.loading = TRUE]
            ELSE IF effect THEN [c EXCEPT !.loading = TRUE]
            ELSE c
  IN  [uploader |-> IF nowUp THEN u ELSE UploaderInit,
       costDashboard |-> c2,
       tasks |-> IF effect THEN Append(kept, CostTask(pid, c2.scale)) ELSE kept]

\* the consumers before any user action
InitUI ==
  /\ logs = << >>
  /\ report = Undefined
  /\ reportOf = Undefined
  /\ isProcessing = FALSE
  /\ currentPage = "upload"
  /\ uploader = UploaderInit
  /\ costDashboard = CostInit
  /\ tasks = << >>

\* the consumers constructed again by a page load, which ends every handler
ResetUI ==
  /\ logs' = << >>
  /\ report' = Undefined
  /\ reportOf' = Undefined
  /\ isProcessing' = FALSE
  /\ currentPage' = "upload"
  /\ uploader' = UploaderInit
  /\ costDashboard' = CostInit
  /\ tasks' = << >>

\* the consumers re-rendered with the context value a credential operation
\* leaves
Rerender ==
  LET r == Reconcile(currentPage, hasSecrets', projectId', uploader, costDashboard, tasks)
  IN  /\ Len(r.tasks) <= MaxInFlight
      /\ uploader' = r.uploader
      /\ costDashboard' = r.costDashboard
      /\ tasks' = r.tasks
      /\ UNCHANGED appVars

-----------------------------------------------------------------------------
\* the provider constructed and rendered once, the mount effect not yet run
Init ==
  /\ \E S \in SlotSetsUpTo(MaxEnvVars) : \E E \in SUBSET S :
       /\ processEnv = SourceEnv("process", S, E)
       /\ importMetaEnv = SourceEnv("meta", S, E)
       /\ windowEnv = SourceEnv("window", S, E)
  /\ sessionStorage \in InitialStores
  /\ projectId = ""
  /\ accessToken = ""
  /\ isEnvManaged = FALSE
  /\ hasSecrets = HasSecrets("", "")
  /\ mounted = FALSE
  /\ op = "none"
  /\ prevOp = "none"
  /\ ret = FALSE
  /\ foundPid = Undefined
  /\ foundToken = Undefined
  /\ args = Undefined
  /\ storageRead = FALSE
  /\ overwrote = FALSE
  /\ svcCall = "none"
  /\ svcInput = << >>
  /\ svcResult = [status |-> "idle", value |-> << >>]
  /\ InitUI

-----------------------------------------------------------------------------
(* Actions *)

\* the fields after an operation, and the re-render that follows the setState
\* calls: the context value is rebuilt from the new fields
Commit(r) ==
  /\ projectId' = r.projectId
  /\ accessToken' = r.accessToken
  /\ isEnvManaged' = r.isEnvManaged
  /\ sessionStorage' = r.sessionStorage
  /\ hasSecrets' = HasSecrets(r.projectId, r.accessToken)

\* the useEffect of SecretsProvider, run once after the first render
Initialize ==
  /\ ~mounted
  /\ LET r == initialize
     IN  /\ Commit(r)
         /\ ret' = r.ret
         /\ foundPid' = r.foundPid
         /\ foundToken' = r.foundToken
         /\ storageRead' = r.storageRead
         /\ overwrote' = (r.sessionStorage # sessionStorage)
  /\ mounted' = TRUE
  /\ op' = "initialize"
  /\ prevOp' = op
  /\ args' = Undefined
  /\ UNCHANGED <<envVars, svcVars>>
  /\ Rerender

\* handleLoadEnv of SecretsInput: the user re-triggers the environment scan
HandleLoadEnv ==
  /\ mounted
  /\ LET r == loadFromEnv
     IN  /\ Commit(r)
         /\ ret' = r.ret
         /\ foundPid' = r.foundPid
         /\ foundToken' = r.foundToken
  /\ op' = "loadFromEnv"
  /\ prevOp' = op
  /\ args' = Undefined
  /\ storageRead' = FALSE
  /\ overwrote' = FALSE
  /\ UNCHANGED <<envVars, mounted, svcVars>>
  /\ Rerender

\* handleSave of SecretsInput: the form's two fields, saved when both are filled
HandleSave(pid, token) ==
  /\ mounted
  /\ Truthy(Str(pid)) /\ Truthy(Str(token))
  /\ Commit(setSecrets(pid, token))
  /\ op' = "setSecrets"
  /\ prevOp' = op
  /\ args' = <<pid, token>>
  /\ ret' = FALSE
  /\ foundPid' = Undefined
  /\ foundToken' = Undefined
  /\ storageRead' = FALSE
  /\ overwrote' = FALSE
  /\ UNCHANGED <<envVars, mounted, svcVars>>
  /\ Rerender

\* a consumer of the context calls clearSecrets
ClearSecrets ==
  /\ mounted
  /\ Commit(clearSecrets)
  /\ op' = "clearSecrets"
  /\ prevOp' = op
  /\ args' = Undefined
  /\ ret' = FALSE
  /\ foundPid' = Undefined
  /\ foundToken' = Undefined
  /\ storageRead' = FALSE
  /\ overwrote' = FALSE
  /\ UNCHANGED <<envVars, mounted, svcVars>>
  /\ Rerender

\* the page is reloaded in the same tab: the provider is constructed again,
\* sessionStorage and the environment stay
Reload ==
  /\ mounted
  /\ projectId' = ""
  /\ accessToken' = ""
  /\ isEnvManaged' = FALSE
  /\ hasSecrets' = HasSecrets("", "")
  /\ mounted' = FALSE
  /\ op' = "none"
  /\ prevOp' = "none"
  /\ args' = Undefined
  /\ ret' = FALSE
  /\ foundPid' = Undefined
  /\ foundToken' = Undefined
  /\ storageRead' = FALSE
  /\ overwrote' = FALSE
  /\ UNCHANGED <<envVars, sessionStorage, svcVars>>
  /\ ResetUI

Next ==
  \/ Initialize
  \/ HandleLoadEnv
  \/ \E pid \in ManualPids, token \in ManualTokens : HandleSave(pid, token)
  \/ ClearSecrets
  \/ Reload

Spec == Init /\ [][Next]_vars

-----------------------------------------------------------------------------
(* The environment, read directly: what the properties below are stated in *)

EnvOf(src) ==
  CASE src = "process" -> processEnv
    [] src = "meta" -> importMetaEnv
    [] src = "window" -> windowEnv

\* the entry (src, key) is set to a non-empty value
Has(src, key) == key \in DOMAIN EnvOf(src) /\ EnvOf(src)[key] # ""

\* some source holds a non-empty value under the key
KeyYields(key) == \E src \in Sources : Has(src, key)

EnvHasPid == \E i \in 1..Len(pidKeys) : KeyYields(pidKeys[i])
EnvHasToken == \E i \in 1..Len(tokenKeys) : KeyYields(tokenKeys[i])

\* the only non-empty entries are the pair of naming convention c in source src
OnlyPair(src, c) ==
  /\ Has(src, pidKeys[c])
  /\ Has(src, tokenKeys[c])
  /\ \A s \in Sources, k \in EnvKeys :
       Has(s, k) => s = src /\ k \in {pidKeys[c], tokenKeys[c]}

\* the last operation ran the environment scan
Scanned == op \in {"loadFromEnv", "initialize"}

-----------------------------------------------------------------------------
(* C1 .. C5 *)

\* C1: when the environment holds a non-empty project id and a non-empty
\* token, loadFromEnv returns true, the two fields are the values found, both
\* are in sessionStorage under gcp_project_id and gcp_access_token and
\* isEnvManaged is true; a pair given under one naming convention alone, in
\* any of the sources, is the pair that becomes active.
C1_EnvLoadSucceeds ==
  (Scanned /\ EnvHasPid /\ EnvHasToken) =>
    /\ ret = TRUE
    /\ Truthy(foundPid) /\ Truthy(foundToken)
    /\ projectId = foundPid[1]
    /\ accessToken = foundToken[1]
    /\ Get(sessionStorage, K_PID) = foundPid
    /\ Get(sessionStorage, K_TOKEN) = foundToken
    /\ isEnvManaged = TRUE
    /\ \A src \in Sources, c \in 1..Len(pidKeys) :
         OnlyPair(src, c) =>
           /\ projectId = EnvOf(src)[pidKeys[c]]
           /\ accessToken = EnvOf(src)[tokenKeys[c]]

\* loadFromEnv replaced a manual credential by the pair of window._env_
C1_Witness ==
  /\ op = "loadFromEnv" /\ prevOp = "setSecrets"
  /\ OnlyPair("window", 1)
  /\ ret = TRUE
  /\ projectId = "win:GCP_PROJECT_ID"
  /\ accessToken = "win:GCP_ACCESS_TOKEN"
  /\ isEnvManaged

\* C2: when the environment lacks the project id, the token or both,
\* loadFromEnv returns false and projectId, accessToken, isEnvManaged and
\* sessionStorage are what they were before the call.
C2_EnvLoadFailureFrame ==
  [][(op' = "loadFromEnv" /\ ~(EnvHasPid /\ EnvHasToken)) =>
       /\ ret' = FALSE
       /\ projectId' = projectId
       /\ accessToken' = accessToken
       /\ isEnvManaged' = isEnvManaged
       /\ sessionStorage' = sessionStorage]_vars

\* a scan that found only a project id, after a manual save
C2_Witness ==
  /\ op = "loadFromEnv" /\ prevOp = "setSecrets"
  /\ EnvHasPid /\ ~EnvHasToken
  /\ ret = FALSE
  /\ projectId \in ManualPids /\ accessToken \in ManualTokens
  /\ Get(sessionStorage, K_PID) = Str(projectId)
  /\ ~isEnvManaged

\* C3: after setSecrets(pid, token) the two fields are its arguments, both are
\* in sessionStorage and isEnvManaged is false, whatever the state before and
\* whatever the environment holds.
C3_SetSecretsOverwrites ==
  op = "setSecrets" =>
    /\ projectId = args[1]
    /\ accessToken = args[2]
    /\ Get(sessionStorage, K_PID) = Str(args[1])
    /\ Get(sessionStorage, K_TOKEN) = Str(args[2])
    /\ isEnvManaged = FALSE

\* setSecrets right after a successful environment load, the environment
\* still holding its pair
C3_Witness ==
  /\ op = "setSecrets" /\ prevOp = "loadFromEnv"
  /\ EnvHasPid /\ EnvHasToken
  /\ projectId \in ManualPids /\ accessToken \in ManualTokens
  /\ ~isEnvManaged

\* C4: after clearSecrets both fields are the empty string, isEnvManaged is
\* false, neither key is in sessionStorage and hasSecrets is false.
C4_ClearSecretsEmpties ==
  op = "clearSecrets" =>
    /\ projectId = ""
    /\ accessToken = ""
    /\ isEnvManaged = FALSE
    /\ K_PID \notin DOMAIN sessionStorage
    /\ K_TOKEN \notin DOMAIN sessionStorage
    /\ hasSecrets = FALSE

\* setSecrets followed by clearSecrets
C4_Witness ==
  /\ op = "clearSecrets" /\ prevOp = "setSecrets"
  /\ projectId = "" /\ accessToken = ""
  /\ DOMAIN sessionStorage = {}
  /\ ~hasSecrets

\* C5: in every state the rendered hasSecrets is true exactly when projectId
\* and accessToken are both non-empty.
C5_HasSecretsIff ==
  hasSecrets <=> (projectId # "" /\ accessToken # "")

\* one field restored, the other empty: hasSecrets is false
C5_Witness ==
  /\ mounted
  /\ projectId # "" /\ accessToken = ""
  /\ ~hasSecrets

-----------------------------------------------------------------------------
(* C6, C7: the mount effect *)

\* what the mount effect restores from a stored key: its value, or nothing
StoredOr(store, key) == IF key \in DOMAIN store THEN store[key] ELSE ""

\* C6: when the environment scan of the mount effect fails, projectId and
\* accessToken are each restored from sessionStorage on its own, a field with
\* no stored value stays empty, hasSecrets is true only if both were stored,
\* isEnvManaged stays false and sessionStorage is left as it was.
C6_InitFallsBackPerField ==
  [][(op' = "initialize" /\ ~(EnvHasPid /\ EnvHasToken)) =>
       /\ ret' = FALSE
       /\ projectId' = StoredOr(sessionStorage, K_PID)
       /\ accessToken' = StoredOr(sessionStorage, K_TOKEN)
       /\ hasSecrets' = (K_PID \in DOMAIN sessionStorage /\ K_TOKEN \in DOMAIN sessionStorage)
       /\ isEnvManaged' = FALSE
       /\ storageRead' = TRUE
       /\ sessionStorage' = sessionStorage]_vars

\* a stored project id restored with no token stored
C6_Witness ==
  /\ op = "initialize"
  /\ ret = FALSE
  /\ K_PID \in DOMAIN sessionStorage /\ K_TOKEN \notin DOMAIN sessionStorage
  /\ projectId = sessionStorage[K_PID]
  /\ accessToken = ""
  /\ ~hasSecrets
  /\ ~isEnvManaged

\* C7: when the environment scan of the mount effect finds both values, the
\* active credential is the pair found whatever sessionStorage held:
\* sessionStorage is not read, both keys hold the pair found afterwards and
\* isEnvManaged is true.
C7_InitEnvOverridesStorage ==
  [][(op' = "initialize" /\ EnvHasPid /\ EnvHasToken) =>
       /\ ret' = TRUE
       /\ Truthy(foundPid') /\ Truthy(foundToken')
       /\ projectId' = foundPid'[1]
       /\ accessToken' = foundToken'[1]
       /\ \A v \in StoredPids \cup ManualPids : projectId' # v
       /\ \A v \in StoredTokens \cup ManualTokens : accessToken' # v
       /\ sessionStorage' = (K_PID :> foundPid'[1]) @@ (K_TOKEN :> foundToken'[1])
       /\ isEnvManaged' = TRUE
       /\ storageRead' = FALSE]_vars

\* the mount effect replaced a stored pair by the environment's
C7_Witness ==
  /\ op = "initialize"
  /\ ret = TRUE
  /\ overwrote
  /\ ~storageRead
  /\ isEnvManaged
  /\ Get(sessionStorage, K_PID) = foundPid
  /\ Get(sessionStorage, K_TOKEN) = foundToken

-----------------------------------------------------------------------------
(* C8 .. C10: the order of the scan *)

\* the sources that hold environment variables; window._env_ is the third
EnvVarSources == {"process", "meta"}

\* the value found was read from window._env_ under keys[j]
FromGlobal(found, keys, j) ==
  Has("window", keys[j]) /\ found = Str(windowEnv[keys[j]])

\* C8 as claimed: once an environment variable under any of the three names
\* of a role holds a non-empty value, the value found for the role is not one
\* of window._env_.
C8_GlobalConsultedLast ==
  Scanned =>
    /\ (\E i \in 1..Len(pidKeys), src \in EnvVarSources : Has(src, pidKeys[i])) =>
         \A j \in 1..Len(pidKeys) : ~FromGlobal(foundPid, pidKeys, j)
    /\ (\E i \in 1..Len(tokenKeys), src \in EnvVarSources : Has(src, tokenKeys[i])) =>
         \A j \in 1..Len(tokenKeys) : ~FromGlobal(foundToken, tokenKeys, j)

\* C8: the sources are ordered within one key name, and the key names are
\* tried in order around that: an environment variable with a non-empty value
\* wins over the value of window._env_ under the same name and under every
\* later name of the role (not under an earlier one).
C8_GlobalLastPerKey ==
  Scanned =>
    /\ \A i \in 1..Len(pidKeys) :
         (\E src \in EnvVarSources : Has(src, pidKeys[i])) =>
           \A j \in i..Len(pidKeys) : ~FromGlobal(foundPid, pidKeys, j)
    /\ \A i \in 1..Len(tokenKeys) :
         (\E src \in EnvVarSources : Has(src, tokenKeys[i])) =>
           \A j \in i..Len(tokenKeys) : ~FromGlobal(foundToken, tokenKeys, j)

\* the same name set in import.meta.env and in window._env_: the variable wins
C8_Witness ==
  /\ op = "loadFromEnv"
  /\ Has("meta", pidKeys[2])
  /\ Has("window", pidKeys[2])
  /\ foundPid = Str(importMetaEnv[pidKeys[2]])

\* the key of a role that comes first among those that yield a value
FirstYielding(keys) ==
  CHOOSE i \in 1..Len(keys) :
    KeyYields(keys[i]) /\ \A j \in 1..(i - 1) : ~KeyYields(keys[j])

\* the value found is the one of the first key name that yields a non-empty
\* value, and nothing when no key name yields one
FoundIsFirstHit(found, keys) ==
  IF \E i \in 1..Len(keys) : KeyYields(keys[i])
  THEN /\ Truthy(found)
       /\ \E src \in Sources :
            Has(src, keys[FirstYielding(keys)]) /\
            found[1] = EnvOf(src)[keys[FirstYielding(keys)]]
  ELSE found = Undefined

\* C9: for each role the key names are tried in the order unprefixed, VITE_,
\* REACT_APP_ and the value used is that of the first name that yields a
\* non-empty value; a name set to the empty string counts as absent.
C9_FirstNonEmptyKeyWins ==
  Scanned => FoundIsFirstHit(foundPid, pidKeys) /\ FoundIsFirstHit(foundToken, tokenKeys)

\* the first name set to the empty string, the second name yields the value
C9_Witness ==
  /\ op = "loadFromEnv"
  /\ pidKeys[1] \in DOMAIN processEnv /\ processEnv[pidKeys[1]] = ""
  /\ ~KeyYields(pidKeys[1])
  /\ Has("process", pidKeys[2])
  /\ foundPid = Str(processEnv[pidKeys[2]])

\* the project id is set under the name of convention i only and the token
\* under the name of convention j only
CrossConvention(i, j) ==
  /\ i # j
  /\ KeyYields(pidKeys[i]) /\ KeyYields(tokenKeys[j])
  /\ \A k \in 1..Len(pidKeys) : k # i => ~KeyYields(pidKeys[k])
  /\ \A k \in 1..Len(tokenKeys) : k # j => ~KeyYields(tokenKeys[k])

\* C10: a project id available under one naming convention only and a token
\* under another only are combined: loadFromEnv returns true, makes the two
\* the active pair and marks it environment-managed.
C10_CrossConventionCombined ==
  \A i \in 1..Len(pidKeys), j \in 1..Len(tokenKeys) :
    (op = "loadFromEnv" /\ CrossConvention(i, j)) =>
      /\ ret = TRUE
      /\ isEnvManaged = TRUE
      /\ hasSecrets = TRUE
      /\ \E s1 \in Sources, s2 \in Sources :
           /\ Has(s1, pidKeys[i]) /\ projectId = EnvOf(s1)[pidKeys[i]]
           /\ Has(s2, tokenKeys[j]) /\ accessToken = EnvOf(s2)[tokenKeys[j]]

\* GCP_PROJECT_ID with VITE_GCP_ACCESS_TOKEN
C10_Witness ==
  /\ op = "loadFromEnv"
  /\ CrossConvention(1, 2)
  /\ ret = TRUE
  /\ projectId = "env:GCP_PROJECT_ID"
  /\ accessToken = "meta:VITE_GCP_ACCESS_TOKEN"
  /\ isEnvManaged

-----------------------------------------------------------------------------
(* C11: repeated scans *)

\* C11: with the environment unchanged, a call of loadFromEnv that follows a
\* call of loadFromEnv returns what the first returned and leaves the fields,
\* the flag, the rendered hasSecrets and sessionStorage as the first left them.
C11_LoadFromEnvIdempotent ==
  [][(op = "loadFromEnv" /\ op' = "loadFromEnv") =>
       /\ ret' = ret
       /\ foundPid' = foundPid
       /\ foundToken' = foundToken
       /\ projectId' = projectId
       /\ accessToken' = accessToken
       /\ isEnvManaged' = isEnvManaged
       /\ hasSecrets' = hasSecrets
       /\ sessionStorage' = sessionStorage]_vars

\* a successful scan right after a successful scan
C11_Witness ==
  /\ op = "loadFromEnv" /\ prevOp = "loadFromEnv"
  /\ ret = TRUE
  /\ isEnvManaged
  /\ Get(sessionStorage, K_PID) = Str(projectId)
  /\ Get(sessionStorage, K_TOKEN) = Str(accessToken)

-----------------------------------------------------------------------------
(* services/geminiService.ts: values                                      *)
(*                                                                         *)
(* A JSON value is a record [type, items]: an array holds its elements in *)
(* items, an object its fields as the one element of items.  A JavaScript *)
(* object used as a payload is the set of its <<key, value>> pairs.       *)
(* A LogEntry is a record of five fields, each << >> when the property is *)
(* undefined and <<s>> when it is the string s.                           *)
(***************************************************************************)

JArr(items) == [type |-> "array", items |-> items]
JObj(fields) == [type |-> "object", items |-> <<fields>>]
JNull == [type |-> "null", items |-> << >>]

\* the members of enum Severity
Severity ==
  {"DEBUG", "INFO", "NOTICE", "WARNING", "ERROR", "CRITICAL", "ALERT", "EMERGENCY"}

\* a || b on two values that are strings or undefined
Or(a, b) == IF Truthy(a) THEN a ELSE b

\* how a call settles
Returned(v) == [status |-> "returned", value |-> v]
Thrown(e) == [status |-> "thrown", value |-> e]
Pending == [status |-> "pending", value |-> << >>]

\* JSON.stringify of the payload objects the model draws
JSONStringify(obj) ==
  CASE obj = {} -> "{}"
    [] obj = {<<"a", 1>>} -> "{\"a\":1}"
    [] obj = {<<"code", 503>>} -> "{\"code\":503}"

-----------------------------------------------------------------------------
(* fetchGCPLogs: the mapping of one entry *)

\* entry.resource?.labels?.[name]
Label(entry, name) ==
  IF entry.resource = Undefined THEN Undefined
  ELSE IF entry.resource[1].labels = Undefined THEN Undefined
  ELSE Get(entry.resource[1].labels[1], name)

\* entry.resource?.type
ResourceType(entry) ==
  IF entry.resource = Undefined THEN Undefined ELSE entry.resource[1].type

\* the service name taken from the resource type before the labels
ServiceOf_typeFirst(entry) ==
  Or(ResourceType(entry),
     Or(Label(entry, "module_id"),
        Or(Label(entry, "service_name"),
           Or(Label(entry, "cluster_name"), Str("gcp-service")))))

\* const service = module_id || service_name || cluster_name || type || "gcp-service"
ServiceOf(entry) ==
  Or(Label(entry, "module_id"),
     Or(Label(entry, "service_name"),
        Or(Label(entry, "cluster_name"),
           Or(ResourceType(entry), Str("gcp-service")))))

\* the message taken from jsonPayload before textPayload
MessageOf_jsonFirst(entry) ==
  IF entry.jsonPayload # Undefined THEN Str(JSONStringify(entry.jsonPayload[1]))
  ELSE IF Truthy(entry.textPayload) THEN entry.textPayload
  ELSE Str("No message content")

\* let message = "No message content"; if (textPayload) ...; else if (jsonPayload) ...
MessageOf(entry) ==
  IF Truthy(entry.textPayload) THEN entry.textPayload
  ELSE IF entry.jsonPayload # Undefined THEN Str(JSONStringify(entry.jsonPayload[1]))
  ELSE Str("No message content")

\* the mapping that passes the severity through and loses the trace
mapEntry_noDefaults(entry) ==
  [timestamp |-> entry.timestamp,
   severity |-> entry.severity,
   service |-> ServiceOf(entry),
   message |-> MessageOf(entry),
   traceId |-> Undefined]

\* the callback of data.entries.map: one native entry to one LogEntry
mapEntry(entry) ==
  [timestamp |-> entry.timestamp,
   severity |-> Or(entry.severity, Str("INFO")),
   service |-> ServiceOf(entry),
   message |-> MessageOf(entry),
   traceId |-> entry.trace]

-----------------------------------------------------------------------------
(* fetchGCPLogs: the request *)

\* response.ok of the Fetch API
Ok(status) == status >= 200 /\ status <= 299

\* ${response.status}
StatusText(status) ==
  CASE status = 200 -> "200"
    [] status = 299 -> "299"
    [] status = 401 -> "401"
    [] status = 403 -> "403"
    [] status = 500 -> "500"

\* the rejection of fetch() itself, and of response.json() on a bad body
FetchFailed == <<"TypeError: Failed to fetch">>
SyntaxError == <<"SyntaxError: Unexpected token">>

\* fetchGCPLogs that hides the status and the body behind a fixed message
fetchGCPLogs_genericError(resp) ==
  IF ~resp.resolved THEN Thrown(FetchFailed)
  ELSE IF ~Ok(resp.status) THEN Thrown(<<"Failed to fetch logs">>)
  ELSE IF ~resp.body.valid THEN Thrown(SyntaxError)
  ELSE IF resp.body.entries = Undefined THEN Returned(JArr(<< >>))
  ELSE Returned(JArr([i \in 1..Len(resp.body.entries[1]) |->
                        mapEntry(resp.body.entries[1][i])]))

\* fetchGCPLogs that leaves out the entries without a payload
fetchGCPLogs_dropEmpty(resp) ==
  IF ~resp.resolved THEN Thrown(FetchFailed)
  ELSE IF ~Ok(resp.status)
    THEN Thrown(<<"GCP API Error (", StatusText(resp.status), "): ", resp.errText>>)
  ELSE IF ~resp.body.valid THEN Thrown(SyntaxError)
  ELSE IF resp.body.entries = Undefined THEN Returned(JArr(<< >>))
  ELSE LET HasPayload(e) == Truthy(e.textPayload) \/ e.jsonPayload # Undefined
           kept == SelectSeq(resp.body.entries[1], HasPayload)
       IN  Returned(JArr([i \in 1..Len(kept) |-> mapEntry(kept[i])]))

\* fetchGCPLogs(projectId, accessToken) given what the logging API answers;
\* the catch block logs the error and throws it again
fetchGCPLogs(resp) ==
  IF ~resp.resolved THEN Thrown(FetchFailed)
  ELSE IF ~Ok(resp.status)
    THEN Thrown(<<"GCP API Error (", StatusText(resp.status), "): ", resp.errText>>)
  ELSE IF ~resp.body.valid THEN Thrown(SyntaxError)
  ELSE IF resp.body.entries = Undefined THEN Returned(JArr(<< >>))
  ELSE Returned(JArr([i \in 1..Len(resp.body.entries[1]) |->
                        mapEntry(resp.body.entries[1][i])]))

-----------------------------------------------------------------------------
(* The completion calls *)

\* a LogEntry as the model's JSON spells it
Entry(ts, sev, svc, msg) ==
  [timestamp |-> ts, severity |-> sev, service |-> svc, message |-> msg,
   traceId |-> Undefined]

T_EMPTY == "[]"
T_LOGS == "[{\"timestamp\":\"2024-05-01T10:00:00Z\",\"severity\":\"ERROR\",\"service\":\"backend-api\",\"message\":\"timeout\"}]"
T_WARN == "[{\"timestamp\":\"2024-05-01T10:00:00Z\",\"severity\":\"WARN\",\"service\":\"backend-api\",\"message\":\"slow\"}]"
T_PARTIAL == "[{\"message\":\"timeout\"}]"
T_OBJECT == "{\"logs\":[]}"
T_NULL == "null"
T_REPORT == "{\"overview\":\"healthy\",\"criticalIssues\":[],\"recommendations\":[]}"
T_COST == "{\"totalMonthToDate\":1.5,\"projectedEndOfMonth\":3,\"dailyTrend\":[],\"serviceBreakdown\":[],\"aiAnalysis\":\"low\",\"optimizationTips\":[]}"
T_PROSE == "Sorry, I cannot parse these logs."

\* what JSON.parse makes of the texts that are JSON
JSONTable ==
  (T_EMPTY :> JArr(<< >>)) @@
  (T_LOGS :> JArr(<<Entry(Str("2024-05-01T10:00:00Z"), Str("ERROR"),
                          Str("backend-api"), Str("timeout"))>>)) @@
  (T_WARN :> JArr(<<Entry(Str("2024-05-01T10:00:00Z"), Str("WARN"),
                          Str("backend-api"), Str("slow"))>>)) @@
  (T_PARTIAL :> JArr(<<Entry(Undefined, Undefined, Undefined, Str("timeout"))>>)) @@
  (T_OBJECT :> JObj([logs |-> << >>])) @@
  (T_NULL :> JNull) @@
  (T_REPORT :> JObj([overview |-> "healthy", criticalIssues |-> << >>,
                     recommendations |-> << >>])) @@
  (T_COST :> JObj([totalMonthToDate |-> "1.5", projectedEndOfMonth |-> "3",
                   dailyTrend |-> << >>, serviceBreakdown |-> << >>,
                   aiAnalysis |-> "low", optimizationTips |-> << >>]))

\* JSON.parse(text): the value, or the SyntaxError it throws
JSONParse(text) ==
  IF text \in DOMAIN JSONTable
  THEN [ok |-> TRUE, value |-> JSONTable[text]]
  ELSE [ok |-> FALSE, value |-> JNull]

\* the rejection of ai.models.generateContent
ApiError == <<"ApiError">>

\* parseLogs with JSON.parse outside a try block
parseLogs_noCatch(resp) ==
  IF ~resp.resolved THEN Thrown(ApiError)
  ELSE IF ~Truthy(resp.text) THEN Returned(JArr(<< >>))
  ELSE IF JSONParse(resp.text[1]).ok THEN Returned(JSONParse(resp.text[1]).value)
  ELSE Thrown(SyntaxError)

\* parseLogs(rawLogs) given how the completion call settles
parseLogs(resp) ==
  IF ~resp.resolved THEN Thrown(ApiError)
  ELSE IF ~Truthy(resp.text) THEN Returned(JArr(<< >>))
  ELSE IF JSONParse(resp.text[1]).ok THEN Returned(JSONParse(resp.text[1]).value)
  ELSE Returned(JArr(<< >>))

\* the two default reports of generateReport
NoReport ==
  JObj([overview |-> "Could not generate report.", criticalIssues |-> << >>,
        recommendations |-> << >>])
ParseErrorReport ==
  JObj([overview |-> "Error parsing AI response.", criticalIssues |-> << >>,
        recommendations |-> << >>])

\* generateReport with the completion call inside a catch-all
generateReport_catchAll(resp) ==
  IF ~resp.resolved THEN Returned(NoReport)
  ELSE IF ~Truthy(resp.text) THEN Returned(NoReport)
  ELSE IF JSONParse(resp.text[1]).ok THEN Returned(JSONParse(resp.text[1]).value)
  ELSE Returned(ParseErrorReport)

\* generateReport(logs) given how the completion call settles
generateReport(resp) ==
  IF ~resp.resolved THEN Thrown(ApiError)
  ELSE IF ~Truthy(resp.text) THEN Returned(NoReport)
  ELSE IF JSONParse(resp.text[1]).ok THEN Returned(JSONParse(resp.text[1]).value)
  ELSE Returned(ParseErrorReport)

\* generateCostReport(projectId, scale) given how the completion call settles
generateCostReport(resp) ==
  IF ~resp.resolved THEN Thrown(ApiError)
  ELSE IF ~Truthy(resp.text) THEN Thrown(<<"Failed to generate cost report">>)
  ELSE IF JSONParse(resp.text[1]).ok THEN Returned(JSONParse(resp.text[1]).value)
  ELSE Thrown(SyntaxError)

-----------------------------------------------------------------------------
(* What the network can answer *)

LabelNames == {"module_id", "service_name", "cluster_name"}

\* the value of a label that is not empty: one of its own
LabelValue ==
  [module_id |-> "default", service_name |-> "checkout", cluster_name |-> "gke-1"]

\* resource.labels: any of the three labels set, to the empty string or not
LabelMaps ==
  {[k \in D |-> IF k \in E THEN "" ELSE LabelValue[k]] :
     D \in SUBSET LabelNames, E \in SUBSET LabelNames}

\* entry.resource: absent, or a type and labels that are each there or not
Resources ==
  {Undefined} \cup
  {Str([type |-> t, labels |-> l]) :
     t \in {Undefined, Str(""), Str("gce_instance")},
     l \in {Undefined} \cup {Str(m) : m \in LabelMaps}}

TextPayloads == {Undefined, Str(""), Str("disk full")}
JsonPayloads == {Undefined, Str({}), Str({<<"a", 1>>}), Str({<<"code", 503>>})}

\* LogSeverity of the logging API has DEFAULT besides the eight of Severity
ApiSeverities == {Undefined, Str("DEFAULT"), Str("ERROR")}
Traces == {Undefined, Str(""), Str("projects/p/traces/7")}
Timestamps == {Str("2024-05-01T10:00:00Z")}

\* the entries of the logging API
NativeEntries ==
  [timestamp : Timestamps, severity : ApiSeverities, textPayload : TextPayloads,
   jsonPayload : JsonPayloads, resource : Resources, trace : Traces]

NativeEntry(sev, text, json, res, trace) ==
  [timestamp |-> Str("2024-05-01T10:00:00Z"), severity |-> sev,
   textPayload |-> text, jsonPayload |-> json, resource |-> res, trace |-> trace]

\* three entries that map to three different LogEntry values, for the lists
\* of more than one entry
BareEntry == NativeEntry(Undefined, Undefined, Undefined, Undefined, Undefined)
TextEntry ==
  NativeEntry(Str("ERROR"), Str("disk full"), Undefined,
              Str([type |-> Str("gae_app"),
                   labels |-> Str([module_id |-> "default"])]),
              Str("projects/p/traces/7"))
JsonEntry ==
  NativeEntry(Undefined, Undefined, Str({<<"a", 1>>}),
              Str([type |-> Str("gce_instance"), labels |-> Undefined]), Undefined)
SampleEntries == {BareEntry, TextEntry, JsonEntry}

RECURSIVE SeqsUpTo(_, _)
\* the sequences over S of length at most n
SeqsUpTo(S, n) ==
  IF n = 0 THEN {<< >>}
  ELSE LET P == SeqsUpTo(S, n - 1)
       IN  P \cup {Append(q, e) : q \in P, e \in S}

\* data.entries: every list of one entry, and the lists of up to MaxEntries
\* of the three entries above
EntryLists == {<<e>> : e \in NativeEntries} \cup SeqsUpTo(SampleEntries, MaxEntries)

OkStatuses == {200, 299}
ErrStatuses == {401, 403, 500}
ErrTexts == {"", "PERMISSION_DENIED"}

NoBody == [valid |-> FALSE, entries |-> Undefined]

\* what fetch() and the logging API answer
FetchResponses ==
  {[resolved |-> FALSE, status |-> 500, errText |-> "", body |-> NoBody]} \cup
  {[resolved |-> TRUE, status |-> st, errText |-> t, body |-> NoBody] :
     st \in ErrStatuses, t \in ErrTexts} \cup
  {[resolved |-> TRUE, status |-> st, errText |-> "", body |-> b] :
     st \in OkStatuses,
     b \in {NoBody, [valid |-> TRUE, entries |-> Undefined]} \cup
           {[valid |-> TRUE, entries |-> Str(l)] : l \in EntryLists}}

\* response.text of a completion
AITexts == DOMAIN JSONTable \cup {"", T_PROSE}

\* how ai.models.generateContent settles
AIResponses ==
  {[resolved |-> FALSE, text |-> Undefined], [resolved |-> TRUE, text |-> Undefined]} \cup
  {[resolved |-> TRUE, text |-> Str(t)] : t \in AITexts}

-----------------------------------------------------------------------------
(* The service calls as a state machine: one call, drawn with the answer   *)
(* it will get, and the step that settles it                               *)

credVars ==
  <<envVars, sessionStorage, projectId, accessToken, isEnvManaged, hasSecrets,
    mounted, op, ret, foundPid, foundToken, args, storageRead, overwrote, prevOp>>

InitService ==
  /\ processEnv = << >> /\ importMetaEnv = << >> /\ windowEnv = << >>
  /\ sessionStorage = << >>
  /\ projectId = "" /\ accessToken = ""
  /\ isEnvManaged = FALSE
  /\ hasSecrets = HasSecrets("", "")
  /\ mounted = FALSE
  /\ op = "none" /\ prevOp = "none"
  /\ ret = FALSE
  /\ foundPid = Undefined /\ foundToken = Undefined
  /\ args = Undefined
  /\ storageRead = FALSE /\ overwrote = FALSE
  /\ \/ svcCall = "fetchGCPLogs" /\ svcInput \in FetchResponses
     \/ svcCall \in {"parseLogs", "generateReport", "generateCostReport"}
        /\ svcInput \in AIResponses
  /\ svcResult = Pending
  /\ InitUI

\* the call of fetchGCPLogs settles
FetchGCPLogs ==
  /\ svcCall = "fetchGCPLogs"
  /\ svcResult = Pending
  /\ svcResult' = fetchGCPLogs(svcInput)
  /\ UNCHANGED <<credVars, uiVars, svcCall, svcInput>>

\* the call of parseLogs settles
ParseLogs ==
  /\ svcCall = "parseLogs"
  /\ svcResult = Pending
  /\ svcResult' = parseLogs(svcInput)
  /\ UNCHANGED <<credVars, uiVars, svcCall, svcInput>>

\* the call of generateReport settles
GenerateReport ==
  /\ svcCall = "generateReport"
  /\ svcResult = Pending
  /\ svcResult' = generateReport(svcInput)
  /\ UNCHANGED <<credVars, uiVars, svcCall, svcInput>>

\* the call of generateCostReport settles
GenerateCostReport ==
  /\ svcCall = "generateCostReport"
  /\ svcResult = Pending
  /\ svcResult' = generateCostReport(svcInput)
  /\ UNCHANGED <<credVars, uiVars, svcCall, svcInput>>

NextService ==
  \/ FetchGCPLogs
  \/ ParseLogs
  \/ GenerateReport
  \/ GenerateCostReport

SpecService == InitService /\ [][NextService]_vars

-----------------------------------------------------------------------------
(* The answer of the logging API, read directly *)

\* fetchGCPLogs returned the mapping of a list of entries
FetchMapped ==
  /\ svcCall = "fetchGCPLogs"
  /\ svcResult.status = "returned"
  /\ svcInput.body.entries # Undefined

InEntries == svcInput.body.entries[1]
OutEntries == svcResult.value.items

\* the labels of an entry, none when the resource or its labels are missing
LabelsOf(e) ==
  IF e.resource = Undefined THEN [k \in {} |-> ""]
  ELSE IF e.resource[1].labels = Undefined THEN [k \in {} |-> ""]
  ELSE e.resource[1].labels[1]

\* the candidates for the service name in their order: the three labels, then
\* the resource type; << >> for one that is missing
Candidates(e) ==
  <<IF "module_id" \in DOMAIN LabelsOf(e) THEN <<LabelsOf(e)["module_id"]>> ELSE << >>,
    IF "service_name" \in DOMAIN LabelsOf(e) THEN <<LabelsOf(e)["service_name"]>> ELSE << >>,
    IF "cluster_name" \in DOMAIN LabelsOf(e) THEN <<LabelsOf(e)["cluster_name"]>> ELSE << >>,
    IF e.resource = Undefined THEN << >> ELSE e.resource[1].type>>

\* the first candidate that satisfies Good, and the fallback when none does
FirstCandidate(e, Good(_)) ==
  LET c == Candidates(e)
      hits == {i \in 1..Len(c) : Good(c[i])}
  IN  IF hits = {} THEN <<"gcp-service">>
      ELSE c[CHOOSE i \in hits : \A j \in hits : i <= j]

IsPresent(v) == v # << >>
IsNonEmpty(v) == v # << >> /\ v # <<"">>

-----------------------------------------------------------------------------
(* C12 .. C14: the mapping of one entry *)

\* C12 as claimed: the service name of every mapped entry is the first value
\* that is present, in the order module_id, service_name, cluster_name,
\* resource.type, and "gcp-service" when none is present.
C12_FirstPresentService ==
  FetchMapped =>
    \A i \in 1..Len(InEntries) :
      OutEntries[i].service = FirstCandidate(InEntries[i], IsPresent)

\* C12: the service name of every mapped entry is the first value that is
\* present and not the empty string, in the order module_id, service_name,
\* cluster_name, resource.type, and "gcp-service" when there is none; an
\* entry without labels and of type gce_instance maps to "gce_instance".
C12_FirstNonEmptyService ==
  FetchMapped =>
    \A i \in 1..Len(InEntries) :
      /\ OutEntries[i].service = FirstCandidate(InEntries[i], IsNonEmpty)
      /\ (LabelsOf(InEntries[i]) = [k \in {} |-> ""] /\ InEntries[i].resource # Undefined
            /\ InEntries[i].resource[1].type = <<"gce_instance">>)
           => OutEntries[i].service = <<"gce_instance">>
      /\ InEntries[i].resource = Undefined => OutEntries[i].service = <<"gcp-service">>

\* a module_id set to the empty string is passed over for the service_name
C12_Witness ==
  /\ FetchMapped
  /\ Len(InEntries) = 1
  /\ InEntries[1].resource # Undefined
  /\ InEntries[1].resource[1].labels # Undefined
  /\ InEntries[1].resource[1].labels[1] = [module_id |-> "", service_name |-> "checkout"]
  /\ InEntries[1].resource[1].type = <<"gce_instance">>
  /\ OutEntries[1].service = <<"checkout">>

\* C13 as claimed: the message of every mapped entry is textPayload whenever a
\* textPayload is present, else the serialization of jsonPayload when that is
\* present, else "No message content".
C13_TextPayloadWhenPresent ==
  FetchMapped =>
    \A i \in 1..Len(InEntries) :
      OutEntries[i].message =
        IF IsPresent(InEntries[i].textPayload) THEN InEntries[i].textPayload
        ELSE IF IsPresent(InEntries[i].jsonPayload)
          THEN <<JSONStringify(InEntries[i].jsonPayload[1])>>
        ELSE <<"No message content">>

\* C13: the message of every mapped entry is textPayload verbatim whenever a
\* textPayload is present and not the empty string, else the serialization of
\* jsonPayload when that is present, else "No message content"; {a:1} is
\* serialized as {"a":1}.
C13_TextPayloadWhenNonEmpty ==
  FetchMapped =>
    \A i \in 1..Len(InEntries) :
      /\ OutEntries[i].message =
           IF IsNonEmpty(InEntries[i].textPayload) THEN InEntries[i].textPayload
           ELSE IF IsPresent(InEntries[i].jsonPayload)
             THEN <<JSONStringify(InEntries[i].jsonPayload[1])>>
           ELSE <<"No message content">>
      /\ (InEntries[i].textPayload = << >> /\ InEntries[i].jsonPayload = <<{<<"a", 1>>}>>)
           => OutEntries[i].message = <<"{\"a\":1}">>

\* an empty textPayload beside a jsonPayload: the message is the JSON text
C13_Witness ==
  /\ FetchMapped
  /\ Len(InEntries) = 1
  /\ InEntries[1].textPayload = <<"">>
  /\ InEntries[1].jsonPayload = <<{<<"a", 1>>}>>
  /\ OutEntries[1].message = <<"{\"a\":1}">>

\* C14: the severity of every mapped entry is the entry's severity when it has
\* one and INFO when it has none; its traceId is the entry's trace when it
\* has one and is undefined when it has none.
C14_SeverityDefaultTraceCarried ==
  FetchMapped =>
    \A i \in 1..Len(InEntries) :
      /\ OutEntries[i].severity =
           IF IsPresent(InEntries[i].severity) THEN InEntries[i].severity ELSE <<"INFO">>
      /\ OutEntries[i].traceId = InEntries[i].trace

\* an entry with a trace and without severity
C14_Witness ==
  /\ FetchMapped
  /\ Len(InEntries) = 1
  /\ InEntries[1].severity = << >>
  /\ InEntries[1].trace = <<"projects/p/traces/7">>
  /\ OutEntries[1].severity = <<"INFO">>
  /\ OutEntries[1].traceId = <<"projects/p/traces/7">>

-----------------------------------------------------------------------------
(* C15 .. C20: what the service calls hand to their callers *)

Settled(call) == svcCall = call /\ svcResult.status # "pending"

\* the invariants of interface LogEntry on one element
LogEntryOk(e) ==
  /\ e.timestamp # << >>
  /\ e.severity # << >>
  /\ e.severity[1] \in Severity
  /\ e.service # << >>
  /\ e.message # << >>

\* the completion call answered without a text, or with a text that is no JSON
NoUsableText ==
  /\ svcInput.resolved
  /\ \/ svcInput.text = << >>
     \/ svcInput.text \in {<<"">>, <<T_PROSE>>}

\* the completion call answered with a JSON text that is a list of elements
\* holding the four fields of LogEntry
WellStructuredLogs ==
  /\ svcInput.resolved
  /\ svcInput.text \in {<<T_EMPTY>>, <<T_LOGS>>, <<T_WARN>>}

\* C15 as claimed: every element of a list returned by parseLogs or by
\* fetchGCPLogs has a timestamp, a service and a message and a severity that
\* is a member of enum Severity, whatever the upstream data.
C15_LogEntryInvariants ==
  ((Settled("parseLogs") \/ Settled("fetchGCPLogs"))
      /\ svcResult.status = "returned" /\ svcResult.value.type = "array") =>
    \A i \in 1..Len(svcResult.value.items) : LogEntryOk(svcResult.value.items[i])

\* C16: a response outside 200..299 makes fetchGCPLogs throw an error whose
\* message holds the status code and the text of the response body; a 2xx
\* response without entries makes it return an empty list; a 2xx response
\* with entries makes it return one mapped element per entry, in order.
C16_FetchThreeOutcomes ==
  (Settled("fetchGCPLogs") /\ svcInput.resolved) =>
    /\ svcInput.status \notin 200..299 =>
         /\ svcResult.status = "thrown"
         /\ \E i \in 1..Len(svcResult.value) : svcResult.value[i] = StatusText(svcInput.status)
         /\ \E j \in 1..Len(svcResult.value) : svcResult.value[j] = svcInput.errText
    /\ (svcInput.status \in 200..299 /\ svcInput.body.valid) =>
         /\ svcResult.status = "returned"
         /\ svcResult.value.type = "array"
         /\ IF svcInput.body.entries = << >> THEN svcResult.value.items = << >>
            ELSE /\ Len(OutEntries) = Len(InEntries)
                 /\ \A i \in 1..Len(InEntries) :
                      /\ OutEntries[i].timestamp = InEntries[i].timestamp
                      /\ OutEntries[i].service = FirstCandidate(InEntries[i], IsNonEmpty)

\* status 403 with a body text: the error thrown names both
C16_Witness ==
  /\ Settled("fetchGCPLogs")
  /\ svcInput.resolved
  /\ svcInput.status = 403
  /\ svcInput.errText = "PERMISSION_DENIED"
  /\ svcResult = Thrown(<<"GCP API Error (", "403", "): ", "PERMISSION_DENIED">>)

\* C17: when the completion call answers without a text or with a text that
\* is not JSON, parseLogs returns the empty list and throws nothing.
C17_NonJsonYieldsEmpty ==
  (Settled("parseLogs") /\ NoUsableText) => svcResult = Returned(JArr(<< >>))

\* prose instead of JSON: the empty list
C17_Witness ==
  /\ Settled("parseLogs")
  /\ svcInput.resolved
  /\ svcInput.text = <<T_PROSE>>
  /\ svcResult.status = "returned"
  /\ svcResult.value.type = "array"
  /\ svcResult.value.items = << >>

\* C18 as claimed: when the completion call answers with anything but a JSON
\* list of elements holding timestamp, severity, service and message,
\* parseLogs returns the empty list.
C18_InvalidStructureYieldsEmpty ==
  (Settled("parseLogs") /\ svcInput.resolved /\ ~WellStructuredLogs) =>
    svcResult = Returned(JArr(<< >>))

\* C19 as claimed: parseLogs and generateReport throw nothing; of the service
\* calls only fetchGCPLogs throws.
C19_OnlyFetchThrows ==
  svcResult.status = "thrown" => svcCall = "fetchGCPLogs"

\* C19: parseLogs and generateReport swallow the errors of reading the
\* completion's text (no text, text that is no JSON) and return the empty list
\* or a default report, while a rejection of the completion call itself is
\* thrown to the caller, as the errors of fetchGCPLogs are.
C19_ParseErrorsSwallowedRequestErrorsThrown ==
  (Settled("parseLogs") \/ Settled("generateReport")) =>
    /\ svcInput.resolved => svcResult.status = "returned"
    /\ ~svcInput.resolved => svcResult = Thrown(ApiError)
    /\ NoUsableText =>
         svcResult.value \in {JArr(<< >>), NoReport, ParseErrorReport}

\* generateReport throws the rejection of the completion call
C19_Witness ==
  /\ Settled("generateReport")
  /\ ~svcInput.resolved
  /\ svcResult.status = "thrown"
  /\ svcResult.value = <<"ApiError">>

\* C20 as claimed: when the completion call answers without a text, with a
\* text that is no JSON or with JSON of another structure, each of parseLogs,
\* generateReport and generateCostReport returns its empty or default value
\* and throws nothing.
C20_MalformedOutputRecovered ==
  ((Settled("parseLogs") \/ Settled("generateReport") \/ Settled("generateCostReport"))
      /\ svcInput.resolved) =>
    /\ svcResult.status = "returned"
    /\ (Settled("parseLogs") /\ ~WellStructuredLogs) => svcResult.value = JArr(<< >>)
    /\ (Settled("generateReport") /\ svcInput.text # <<T_REPORT>>) =>
         svcResult.value \in {NoReport, ParseErrorReport}

-----------------------------------------------------------------------------
(* The pages: App, LogUploader and CostDashboard with their async handlers *)

\* two of the option values of the scale selector
Scales == {"hobby", "startup"}

\* what the user can have in the text area
Texts == {"", "raw log lines"}

\* the answers the handlers of the pages get to their requests
UIDemoResponses ==
  {[resolved |-> FALSE, text |-> Undefined],
   [resolved |-> TRUE, text |-> Str("raw log lines")]}
UIFetchResponses ==
  {[resolved |-> TRUE, status |-> 403, errText |-> "PERMISSION_DENIED", body |-> NoBody],
   [resolved |-> TRUE, status |-> 200, errText |-> "",
    body |-> [valid |-> TRUE, entries |-> Undefined]],
   [resolved |-> TRUE, status |-> 200, errText |-> "",
    body |-> [valid |-> TRUE, entries |-> Str(<<TextEntry>>)]]}
UIParseResponses ==
  {[resolved |-> FALSE, text |-> Undefined],
   [resolved |-> TRUE, text |-> Str(T_LOGS)]}
UIReportResponses ==
  {[resolved |-> FALSE, text |-> Undefined],
   [resolved |-> TRUE, text |-> Str(T_REPORT)]}
UICostResponses ==
  {[resolved |-> FALSE, text |-> Undefined],
   [resolved |-> TRUE, text |-> Str(T_COST)]}

\* generateDemoLogs() given how the completion call settles
generateDemoLogs(resp) ==
  IF ~resp.resolved THEN Thrown(ApiError) ELSE Returned(resp.text)

\* the two texts handleGCPConnect itself puts into gcpError
NoLogsFound == <<"Connection successful, but no logs found for the last hour.">>
ConnectFailed == <<"Failed to connect to GCP. Check your token and permissions.">>

\* the Fetch & Analyze button takes a click, and handleGCPConnect goes on
CanConnect_noSecretCheck(has, fetching) == ~fetching
CanConnect(has, fetching) == has /\ ~fetching

\* the Analyze Logs and the Generate Demo buttons take a click
CanAnalyze(text, processing) == text # "" /\ ~processing
CanGenerate(generating, processing) == ~(generating \/ processing)

\* the argument of generateReport: the local that holds what the step before
\* produced, not the logs of the render the handler was created in
SummarizeArg_stale(produced, rendered) == rendered
SummarizeArg(produced, rendered) == produced

\* the busy flag after the finally block, whether or not the try block threw
Finally_onSuccessOnly(thrown) == thrown
Finally(thrown) == FALSE

RemoveAt(t, i) == SubSeq(t, 1, i - 1) \o SubSeq(t, i + 1, Len(t))

\* the render that follows a handler, laid down in the variables
Render(page, u, c, t) ==
  LET r == Reconcile(page, hasSecrets, projectId, u, c, t)
  IN  /\ Len(r.tasks) <= MaxInFlight
      /\ currentPage' = page
      /\ uploader' = r.uploader
      /\ costDashboard' = r.costDashboard
      /\ tasks' = r.tasks

\* setCurrentPage from the header and the navigation bar
Navigate(page) ==
  /\ mounted
  /\ page \in {"upload", "costs"}
  /\ page # currentPage
  /\ Render(page, uploader, costDashboard, tasks)
  /\ UNCHANGED <<credVars, svcVars, logs, report, reportOf, isProcessing>>

\* setMode from the two tabs of LogUploader
SetMode(m) ==
  /\ mounted
  /\ UploaderMounted(currentPage)
  /\ m # uploader.mode
  /\ uploader' = [uploader EXCEPT !.mode = m]
  /\ UNCHANGED <<credVars, svcVars, appVars, costDashboard, tasks>>

\* onChange of the text area
SetText(t) ==
  /\ mounted
  /\ UploaderMounted(currentPage)
  /\ uploader.mode = "paste"
  /\ t # uploader.text
  /\ uploader' = [uploader EXCEPT !.text = t]
  /\ UNCHANGED <<credVars, svcVars, appVars, costDashboard, tasks>>

\* handleGenerate up to its await
HandleGenerate ==
  /\ mounted
  /\ UploaderMounted(currentPage)
  /\ uploader.mode = "paste"
  /\ CanGenerate(uploader.isGenerating, isProcessing)
  /\ Len(tasks) < MaxInFlight
  /\ uploader' = [uploader EXCEPT !.isGenerating = TRUE]
  /\ tasks' = Append(tasks, Task("demo", "generateDemoLogs", << >>, TRUE))
  /\ UNCHANGED <<credVars, svcVars, appVars, costDashboard>>

\* processTextLogs up to its first await
ProcessTextLogs ==
  /\ mounted
  /\ UploaderMounted(currentPage)
  /\ uploader.mode = "paste"
  /\ CanAnalyze(uploader.text, isProcessing)
  /\ Len(tasks) < MaxInFlight
  /\ isProcessing' = TRUE
  /\ tasks' = Append(tasks, Task("text", "parseLogs", << >>, TRUE))
  /\ UNCHANGED <<credVars, svcVars, logs, report, reportOf, currentPage,
                 uploader, costDashboard>>

\* handleGCPConnect up to its await
HandleGCPConnect ==
  /\ mounted
  /\ UploaderMounted(currentPage)
  /\ uploader.mode = "gcp"
  /\ CanConnect(hasSecrets, uploader.isFetchingGCP)
  /\ Len(tasks) < MaxInFlight
  /\ uploader' = [uploader EXCEPT !.isFetchingGCP = TRUE, !.gcpError = Undefined]
  /\ tasks' = Append(tasks, Task("fetch", "fetchGCPLogs", <<projectId, accessToken>>, TRUE))
  /\ UNCHANGED <<credVars, svcVars, appVars, costDashboard>>

\* onChange of the scale selector, and the effect its re-render runs
ChangeScale(sc) ==
  /\ mounted
  /\ CostMounted(currentPage, hasSecrets)
  /\ sc # costDashboard.scale
  /\ Render(currentPage, uploader, [costDashboard EXCEPT !.scale = sc], tasks)
  /\ UNCHANGED <<credVars, svcVars, logs, report, reportOf, isProcessing>>

\* reset, the onReset of Dashboard
HandleReset ==
  /\ mounted
  /\ currentPage = "dashboard"
  /\ logs' = << >>
  /\ report' = Undefined
  /\ reportOf' = Undefined
  /\ Render("upload", uploader, costDashboard, tasks)
  /\ UNCHANGED <<credVars, svcVars, isProcessing>>

\* handleGenerate from its await on
SettleDemo(i) ==
  /\ i \in 1..Len(tasks)
  /\ tasks[i].kind = "demo"
  /\ \E resp \in UIDemoResponses :
       LET r == generateDemoLogs(resp)
           thrown == r.status = "thrown"
       IN  /\ uploader' =
                IF ~tasks[i].live THEN uploader
                ELSE IF thrown THEN [uploader EXCEPT !.isGenerating = Finally(TRUE)]
                ELSE [uploader EXCEPT !.text = r.value[1], !.isGenerating = Finally(FALSE)]
  /\ tasks' = RemoveAt(tasks, i)
  /\ UNCHANGED <<credVars, svcVars, appVars, costDashboard>>

\* handleGCPConnect from its await on, and with it processGCPLogs up to its
\* await when there are entries
SettleFetch(i) ==
  /\ i \in 1..Len(tasks)
  /\ tasks[i].kind = "fetch"
  /\ \E resp \in UIFetchResponses :
       LET r == fetchGCPLogs(resp)
           thrown == r.status = "thrown"
           empty == ~thrown /\ Len(r.value.items) = 0
           u == IF ~tasks[i].live THEN uploader
                ELSE IF thrown
                  THEN [uploader EXCEPT !.isFetchingGCP = Finally(TRUE),
                                        !.gcpError = Str(IF r.value = << >> THEN ConnectFailed
                                                         ELSE r.value)]
                ELSE IF empty
                  THEN [uploader EXCEPT !.isFetchingGCP = Finally(FALSE),
                                        !.gcpError = Str(NoLogsFound)]
                ELSE [uploader EXCEPT !.isFetchingGCP = Finally(FALSE)]
       IN  /\ uploader' = u
           /\ IF thrown \/ empty
              THEN /\ tasks' = RemoveAt(tasks, i)
                   /\ UNCHANGED appVars
              ELSE /\ isProcessing' = TRUE
                   /\ logs' = r.value.items
                   /\ tasks' = [tasks EXCEPT ![i] =
                        Task("gcp", "generateReport", SummarizeArg(r.value.items, logs), TRUE)]
                   /\ UNCHANGED <<report, reportOf, currentPage>>
  /\ UNCHANGED <<credVars, svcVars, costDashboard>>

\* processTextLogs from its first await to its second
SettleParse(i) ==
  /\ i \in 1..Len(tasks)
  /\ tasks[i].kind = "text"
  /\ tasks[i].phase = "parseLogs"
  /\ \E resp \in UIParseResponses :
       LET r == parseLogs(resp)
       IN  IF r.status = "thrown"
              THEN /\ isProcessing' = Finally(TRUE)
                   /\ tasks' = RemoveAt(tasks, i)
                   /\ UNCHANGED logs
              ELSE /\ logs' = r.value.items
                   /\ tasks' = [tasks EXCEPT ![i] =
                        Task("text", "generateReport", SummarizeArg(r.value.items, logs), TRUE)]
                   /\ UNCHANGED isProcessing
  /\ UNCHANGED <<credVars, svcVars, report, reportOf, currentPage, uploader, costDashboard>>

\* processTextLogs and processGCPLogs from the await of generateReport on
SettleReport(i) ==
  /\ i \in 1..Len(tasks)
  /\ tasks[i].phase = "generateReport"
  /\ \E resp \in UIReportResponses :
       LET r == generateReport(resp)
       IN  IF r.status = "thrown"
              THEN /\ isProcessing' = Finally(TRUE)
                   /\ tasks' = RemoveAt(tasks, i)
                   /\ UNCHANGED <<report, reportOf, currentPage, uploader, costDashboard>>
              ELSE /\ report' = Str(r.value)
                   /\ reportOf' = Str(tasks[i].arg)
                   /\ isProcessing' = Finally(FALSE)
                   /\ Render("dashboard", uploader, costDashboard, RemoveAt(tasks, i))
  /\ UNCHANGED <<credVars, svcVars, logs>>

\* loadData of CostDashboard from its await on
SettleCost(i) ==
  /\ i \in 1..Len(tasks)
  /\ tasks[i].kind = "cost"
  /\ \E resp \in UICostResponses :
       LET r == generateCostReport(resp)
       IN  /\ costDashboard' =
                IF ~tasks[i].live THEN costDashboard
                ELSE IF r.status = "thrown"
                  THEN [costDashboard EXCEPT !.loading = Finally(TRUE)]
                ELSE [costDashboard EXCEPT !.data = Str(r.value),
                                           !.dataScale = Str(tasks[i].arg[2]),
                                           !.loading = Finally(FALSE)]
  /\ tasks' = RemoveAt(tasks, i)
  /\ UNCHANGED <<credVars, svcVars, appVars, uploader>>

\* the request of the i-th waiting handler settles
Settle(i) ==
  \/ SettleDemo(i)
  \/ SettleFetch(i)
  \/ SettleParse(i)
  \/ SettleReport(i)
  \/ SettleCost(i)

\* a tab opened with an empty environment and what sessionStorage holds
InitApp ==
  /\ processEnv = SourceEnv("process", {}, {})
  /\ importMetaEnv = SourceEnv("meta", {}, {})
  /\ windowEnv = SourceEnv("window", {}, {})
  /\ sessionStorage \in {s \in InitialStores : DOMAIN s \in {{}, {K_PID, K_TOKEN}}}
  /\ projectId = ""
  /\ accessToken = ""
  /\ isEnvManaged = FALSE
  /\ hasSecrets = HasSecrets("", "")
  /\ mounted = FALSE
  /\ op = "none"
  /\ prevOp = "none"
  /\ ret = FALSE
  /\ foundPid = Undefined
  /\ foundToken = Undefined
  /\ args = Undefined
  /\ storageRead = FALSE
  /\ overwrote = FALSE
  /\ svcCall = "none"
  /\ svcInput = << >>
  /\ svcResult = [status |-> "idle", value |-> << >>]
  /\ InitUI

NextApp ==
  \/ Initialize
  \/ HandleSave("m", "n")
  \/ \E page \in {"upload", "costs"} : Navigate(page)
  \/ \E m \in {"paste", "gcp"} : SetMode(m)
  \/ \E t \in Texts : SetText(t)
  \/ HandleGenerate
  \/ ProcessTextLogs
  \/ HandleGCPConnect
  \/ \E sc \in Scales : ChangeScale(sc)
  \/ HandleReset
  \/ \E i \in 1..MaxInFlight : SettleDemo(i)
  \/ \E i \in 1..MaxInFlight : SettleFetch(i)
  \/ \E i \in 1..MaxInFlight : SettleParse(i)
  \/ \E i \in 1..MaxInFlight : SettleReport(i)
  \/ \E i \in 1..MaxInFlight : SettleCost(i)

SpecApp == InitApp /\ [][NextApp]_vars

\* every request is answered or fails: the oldest waiting handler goes on
SpecAppFair == SpecApp /\ WF_vars(Settle(1))

-----------------------------------------------------------------------------
(* What the pages render *)

\* the warning of LogUploader that no credentials are configured
CredentialsWarning ==
  UploaderMounted(currentPage) /\ uploader.mode = "gcp" /\ ~hasSecrets

\* the Credentials Required panel that App renders in place of CostDashboard
CredentialsRequired == currentPage = "costs" /\ ~hasSecrets

\* the box of LogUploader labelled "Error:" that shows gcpError
ErrorBox ==
  UploaderMounted(currentPage) /\ uploader.mode = "gcp" /\ uploader.gcpError # Undefined

\* the buttons that start an analysis are rendered and take a click
AnalyzeClickable ==
  /\ UploaderMounted(currentPage)
  /\ uploader.mode = "paste"
  /\ uploader.text # ""
  /\ ~isProcessing
ConnectClickable ==
  /\ UploaderMounted(currentPage)
  /\ uploader.mode = "gcp"
  /\ hasSecrets
  /\ ~uploader.isFetchingGCP

\* the waiting handlers of one kind, and those of them whose component is
\* still mounted
Waiting(kinds) == {i \in 1..Len(tasks) : tasks[i].kind \in kinds}
WaitingLive(kinds) == {i \in Waiting(kinds) : tasks[i].live}

-----------------------------------------------------------------------------
(* C21 .. C25, C27, C28: the handlers of the pages *)

\* C21 as claimed: at most one run of processTextLogs or processGCPLogs waits
\* at any time, and while one waits isProcessing is true and neither the
\* Analyze Logs nor the Fetch & Analyze button takes a click.
C21_OneAnalysisInFlight ==
  /\ Cardinality(Waiting({"text", "gcp"})) <= 1
  /\ Waiting({"text", "gcp"}) # {} =>
       isProcessing /\ ~AnalyzeClickable /\ ~ConnectClickable

\* C22 as claimed: at most one request of the mounted CostDashboard waits at
\* any time, loading is true while it waits, and when none waits the report
\* shown is the one requested with the selected scale.
C22_OneCostRequestInFlight ==
  /\ Cardinality(WaitingLive({"cost"})) <= 1
  /\ WaitingLive({"cost"}) # {} => costDashboard.loading
  /\ (WaitingLive({"cost"}) = {} /\ costDashboard.data # Undefined) =>
       costDashboard.dataScale = <<costDashboard.scale>>

\* C23: each busy flag that is true is false again later, whether the request
\* the handler waits for is answered or fails: at every moment each of
\* isProcessing, isGenerating, isFetchingGCP and loading is false then or
\* later.
C23_BusyFlagsCleared ==
  /\ []<>(~isProcessing)
  /\ []<>(~uploader.isGenerating)
  /\ []<>(~uploader.isFetchingGCP)
  /\ []<>(~costDashboard.loading)

\* an analysis that failed after its logs were set: nothing waits, the flag
\* is false
C23_Witness ==
  /\ tasks = << >>
  /\ ~isProcessing
  /\ logs # << >>
  /\ report = Undefined
  /\ currentPage = "upload"

\* C24: a handler comes to wait for generateReport only in the step in which
\* its parseLogs or fetchGCPLogs step returned, and the argument is the list
\* that step produced (the one it sets as logs); report is set, and the
\* dashboard page entered, only in the step in which a generateReport
\* returned, report being the answer to the call with that handler's list.
C24_SummarizeAfterStep ==
  [][/\ Len(tasks') > Len(tasks) => tasks'[Len(tasks')].phase # "generateReport"
     /\ Len(tasks') = Len(tasks) =>
          \A i \in 1..Len(tasks) :
            (tasks'[i].phase = "generateReport" /\ tasks[i].phase # "generateReport") =>
              /\ tasks[i].phase \in {"parseLogs", "fetchGCPLogs"}
              /\ tasks'[i].arg = logs'
     /\ ((report' # report /\ report' # Undefined)
           \/ (currentPage' = "dashboard" /\ currentPage # "dashboard")) =>
          \E i \in 1..Len(tasks) :
            /\ tasks[i].phase = "generateReport"
            /\ Len(tasks') = Len(tasks) - 1
            /\ report' # Undefined
            /\ reportOf' = <<tasks[i].arg>>
            /\ currentPage' = "dashboard"]_vars

\* processGCPLogs waits for the report on the entries that were fetched
C24_Witness ==
  /\ Len(tasks) = 1
  /\ tasks[1].kind = "gcp"
  /\ tasks[1].phase = "generateReport"
  /\ tasks[1].arg = logs
  /\ Len(logs) = 1
  /\ report = Undefined
  /\ currentPage = "upload"
  /\ isProcessing

\* C25: every request to the logging API is made with a project id and a
\* token that are not empty, every cost report is requested for a project id
\* that is set, and while hasSecrets is false no such request waits,
\* CostDashboard holds no state and the page shows the prompt for credentials.
C25_NoTokenRequestWithoutSecrets ==
  /\ \A i \in Waiting({"fetch"}) : tasks[i].arg[1] # "" /\ tasks[i].arg[2] # ""
  /\ \A i \in Waiting({"cost"}) : tasks[i].arg[1] \notin {"", "demo-project"}
  /\ ~hasSecrets =>
       /\ Waiting({"fetch", "cost"}) = {}
       /\ ~uploader.isFetchingGCP
       /\ costDashboard = CostInit
       /\ currentPage = "costs" => CredentialsRequired
       /\ (currentPage = "upload" /\ uploader.mode = "gcp") =>
            CredentialsWarning /\ ~ConnectClickable

\* the GCP tab opened without credentials: the warning, and no request
C25_Witness ==
  /\ mounted
  /\ ~hasSecrets
  /\ currentPage = "upload"
  /\ uploader.mode = "gcp"
  /\ CredentialsWarning
  /\ tasks = << >>

\* C27 as claimed: when the fetch returns no entries, the uploader shows the
\* text for "connected, no data" outside the error box, starts no analysis
\* and leaves logs, report and page as they are.
C27_EmptyFetchIsInformational ==
  [][(\E i \in WaitingLive({"fetch"}) :
        /\ tasks' = RemoveAt(tasks, i)
        /\ uploader'.gcpError = <<NoLogsFound>>) =>
       /\ logs' = logs /\ report' = report /\ currentPage' = currentPage
       /\ isProcessing' = isProcessing
       /\ ~ErrorBox']_vars

\* C28 as claimed: when no run of processTextLogs or processGCPLogs and no
\* fetch waits, a report that is set is the answer to the call of
\* generateReport with the current logs.
C28_ReportMatchesLogs ==
  (Waiting({"text", "gcp", "fetch"}) = {} /\ report # Undefined) => reportOf = <<logs>>

-----------------------------------------------------------------------------
(* C26: the mapping of a list of entries *)

\* the LogEntry that one native entry is to become
ExpectedEntry(e) ==
  [timestamp |-> e.timestamp,
   severity |-> IF IsPresent(e.severity) THEN e.severity ELSE <<"INFO">>,
   service |-> FirstCandidate(e, IsNonEmpty),
   message |-> IF IsNonEmpty(e.textPayload) THEN e.textPayload
               ELSE IF IsPresent(e.jsonPayload) THEN <<JSONStringify(e.jsonPayload[1])>>
               ELSE <<"No message content">>,
   traceId |-> e.trace]

\* C26: for a 2xx response with n entries fetchGCPLogs returns exactly n
\* LogEntry values and the i-th of them is the mapping of the i-th entry,
\* also for an entry without payload, labels and severity.
C26_NoDropNoReorder ==
  FetchMapped =>
    /\ Len(OutEntries) = Len(InEntries)
    /\ \A i \in 1..Len(InEntries) : OutEntries[i] = ExpectedEntry(InEntries[i])

\* an entry with nothing but a timestamp, ahead of one with a payload
C26_Witness ==
  /\ FetchMapped
  /\ Len(InEntries) = 2
  /\ InEntries[1].textPayload = << >> /\ InEntries[1].jsonPayload = << >>
  /\ InEntries[1].resource = << >> /\ InEntries[1].severity = << >>
  /\ InEntries[2].textPayload = <<"disk full">>
  /\ Len(OutEntries) = 2
  /\ OutEntries[1].message = <<"No message content">>
  /\ OutEntries[1].service = <<"gcp-service">>
  /\ OutEntries[2].message = <<"disk full">>

-----------------------------------------------------------------------------
(* C29, C30: the credential store over every sequence of its operations *)

\* C29: whenever isEnvManaged is true, hasSecrets is true and the pair in
\* memory is the pair the environment scan finds; after setSecrets and after
\* clearSecrets isEnvManaged is false.
C29_EnvManagedMeansScannedPair ==
  /\ isEnvManaged =>
       /\ hasSecrets
       /\ projectId # "" /\ accessToken # ""
       /\ FoundIsFirstHit(<<projectId>>, pidKeys)
       /\ FoundIsFirstHit(<<accessToken>>, tokenKeys)
  /\ op \in {"setSecrets", "clearSecrets"} => ~isEnvManaged

\* a manual pair replaced by a new scan of the environment
C29_Witness ==
  /\ isEnvManaged
  /\ op = "loadFromEnv"
  /\ prevOp = "setSecrets"
  /\ ret = TRUE
  /\ projectId \notin ManualPids

\* C30: once the mount effect has run, gcp_project_id in sessionStorage is
\* projectId and gcp_access_token is accessToken, a key being absent exactly
\* when its field is empty.
C30_StorageMirrorsMemory ==
  mounted =>
    /\ Get(sessionStorage, K_PID) = IF projectId = "" THEN Undefined ELSE <<projectId>>
    /\ Get(sessionStorage, K_TOKEN) = IF accessToken = "" THEN Undefined ELSE <<accessToken>>

\* a manual pair saved over a stored one
C30_Witness ==
  /\ mounted
  /\ op = "setSecrets"
  /\ prevOp = "initialize"
  /\ storageRead = FALSE
  /\ projectId = "m"
  /\ Get(sessionStorage, K_PID) = <<"m">>
  /\ Get(sessionStorage, K_TOKEN) = <<"n">>

====
